---- MODULE Spec2Model ----
(***************************************************************************)
(* Model of packages/crypto-wasm/src/lib.rs: the VollyKEM (ML-KEM-768) and *)
(* VollyDSA (ML-DSA-65) wrappers.                                          *)
(*                                                                         *)
(* A byte string is a record [len, v]: its length and an abstract content  *)
(* (a tagged tuple).  The       fips203 / fips204 primitives, SHA3-256 and  *)
(* getrandom are external: they are modelled as injective symbolic         *)
(* functions of their inputs, with a decode that rejects contents that are *)
(* not an encoding of the expected kind.  ChaCha20Rng is an in-memory      *)
(* generator that never fails, so keygen / encaps / sign, whose only       *)
(* failure is a failing generator, always succeed on decoded inputs; the   *)
(* wrappers' map_err branches for them are kept but never taken.           *)
(*                                                                         *)
(* Every wrapper function is an operator returning                         *)
(*   [ret, trace, rng]                                                     *)
(* ret: the Result returned; trace: the primitive operations and entropy   *)
(* draws attempted, in order; rng: the seed handed to                      *)
(* ChaCha20Rng::from_seed with the draw it came from (src = 0: no draw).   *)
(***************************************************************************)
EXTENDS Integers, Sequences, FiniteSets, TLC

\* ------------------------------------------------------------------ state
\* kem, dsa: the instance the caller holds of each struct (live = FALSE:
\*   none constructed yet), fields public_key and secret_key
\* last: the latest call: function, arguments, what getrandom did if it
\*   was called, and the call's outcome
\* draws: the number of getrandom calls so far
VARIABLES kem, dsa, last, draws

vars == <<kem, dsa, last, draws>>

\* ---------------------------------------------------------------- bounds
\* 32-byte values (seeds, digests, getrandom outputs) are 0..MaxSeed
MaxSeed == 2
\* getrandom returns a value in 0..MaxRand
MaxRand == 1
\* messages are the byte strings of length 0..MaxMsgLen
MaxMsgLen == 1
\* calls to getrandom in one behaviour
MaxDraws == 2

\* ------------------------------------------------------ program constants
EK_LEN == 1184
DK_LEN == 2400
CT_LEN == 1088
SS_LEN == 32
PK_LEN == 1952
SK_LEN == 4032
SIG_LEN == 3309
SEED_LEN == 32

\* ----------------------------------------------------------- byte strings
Bytes(n, c) == [len |-> n, v |-> c]

SeedVals == 0 .. MaxSeed
RandVals == 0 .. MaxRand

\* b"" : the empty domain-separation context
EmptyContext == Bytes(0, <<>>)

\* ---------------------------------------------------------------- Results
NoVal == [none |-> TRUE]
Ok(x) == [ok |-> TRUE, val |-> x, err |-> <<>>]
Err(e) == [ok |-> FALSE, val |-> NoVal, err |-> e]

NoRng == [seed |-> Bytes(0, <<>>), src |-> 0]
Out(r, t, g) == [ret |-> r, trace |-> t, rng |-> g]

KeyPair(pk, sk) == [public_key |-> pk, secret_key |-> sk]

\* ------------------------------------------------- external: sha3, getrandom
\* Sha3_256::new / update / finalize: an injective map of 32-byte values
\* that is not the identity
Sha3_256(seed) == Bytes(SEED_LEN, <<(seed.v[1] + 1) % (MaxSeed + 1)>>)

\* getrandom(&mut seed): e is what the secure random source does in this
\* call, [ok, v, id]; the buffer starts zeroed and is filled on success
getrandom(e) == [ok |-> e.ok, buf |-> IF e.ok THEN Bytes(SEED_LEN, <<e.v>>) ELSE Bytes(SEED_LEN, <<0>>), src |-> e.id]

ChaCha20Rng_from_seed(buf, src) == [seed |-> buf, src |-> src]

\* ------------------------------------------------ external: fips203 ml_kem_768
\* KG::try_keygen_with_rng: the key pair is a function of the generator's seed
ml_kem_768_try_keygen_with_rng(rng) == [ok |-> TRUE, ek |-> [k |-> rng.seed.v[1]], dk |-> [k |-> rng.seed.v[1]]]

EncapsKey_into_bytes(ek) == Bytes(EK_LEN, <<"ek", ek.k>>)
DecapsKey_into_bytes(dk) == Bytes(DK_LEN, <<"dk", dk.k>>)

\* SerDes::try_from_bytes on a fixed-size array: fails on a content that is
\* no encoding of a key / ciphertext
EncapsKey_try_from_bytes(b) == IF Len(b.v) = 2 /\ b.v[1] = "ek" THEN [ok |-> TRUE, ek |-> [k |-> b.v[2]]] ELSE [ok |-> FALSE, ek |-> [k |-> 0]]
DecapsKey_try_from_bytes(b) == IF Len(b.v) = 2 /\ b.v[1] = "dk" THEN [ok |-> TRUE, dk |-> [k |-> b.v[2]]] ELSE [ok |-> FALSE, dk |-> [k |-> 0]]
CipherText_try_from_bytes(b) == IF Len(b.v) = 3 /\ b.v[1] = "ct" THEN [ok |-> TRUE, ct |-> [k |-> b.v[2], r |-> b.v[3]]] ELSE [ok |-> FALSE, ct |-> [k |-> 0, r |-> 0]]

\* EncapsKey::try_encaps_with_rng: (shared secret, ciphertext), a function
\* of the key and the generator's seed
try_encaps_with_rng(ek, rng) == [ok |-> TRUE, shared_secret |-> Bytes(SS_LEN, <<"ss", ek.k, rng.seed.v[1]>>), ciphertext |-> Bytes(CT_LEN, <<"ct", ek.k, rng.seed.v[1]>>)]

\* DecapsKey::try_decaps: the encapsulated secret under the matching key,
\* the implicit-rejection secret under any other
try_decaps(dk, ct) == [ok |-> TRUE, shared_secret |-> IF dk.k = ct.k THEN Bytes(SS_LEN, <<"ss", ct.k, ct.r>>) ELSE Bytes(SS_LEN, <<"ssrej", dk.k, ct.k, ct.r>>)]

\* ------------------------------------------------ external: fips204 ml_dsa_65
ml_dsa_65_try_keygen_with_rng(rng) == [ok |-> TRUE, pk |-> [k |-> rng.seed.v[1]], sk |-> [k |-> rng.seed.v[1]]]

PublicKey_into_bytes(pk) == Bytes(PK_LEN, <<"pk", pk.k>>)
PrivateKey_into_bytes(sk) == Bytes(SK_LEN, <<"sk", sk.k>>)

PublicKey_try_from_bytes(b) == IF Len(b.v) = 2 /\ b.v[1] = "pk" THEN [ok |-> TRUE, pk |-> [k |-> b.v[2]]] ELSE [ok |-> FALSE, pk |-> [k |-> 0]]
PrivateKey_try_from_bytes(b) == IF Len(b.v) = 2 /\ b.v[1] = "sk" THEN [ok |-> TRUE, sk |-> [k |-> b.v[2]]] ELSE [ok |-> FALSE, sk |-> [k |-> 0]]

\* PrivateKey::try_sign_with_rng(rng, message, context): the hedged
\* signature, a function of key, message, context and the generator's seed
try_sign_with_rng(sk, rng, message, context) == [ok |-> TRUE, signature |-> Bytes(SIG_LEN, <<"sig", sk.k, message, context, rng.seed.v[1]>>)]

\* PublicKey::verify(message, sig, context): true exactly for a signature
\* made for this key, message and context
verify(pk, message, sig, context) == /\ Len(sig.v) = 5
                                     /\ sig.v[1] = "sig"
                                     /\ sig.v[2] = pk.k
                                     /\ sig.v[3] = message
                                     /\ sig.v[4] = context

\* ------------------------------------------------------------- VollyKEM
\* variant of new that goes on with the zero-initialised buffer when the
\* draw fails
VollyKEM_new_zero_fallback(e) ==
  LET seed == getrandom(e)
      rng == ChaCha20Rng_from_seed(seed.buf, seed.src)
      kg == ml_kem_768_try_keygen_with_rng(rng) IN
  Out(Ok(KeyPair(EncapsKey_into_bytes(kg.ek), DecapsKey_into_bytes(kg.dk))), <<"getrandom", "keygen">>, rng)

\* VollyKEM::new
VollyKEM_new(e) ==
  LET seed == getrandom(e) IN
  IF ~seed.ok THEN Out(Err(<<"Random generation failed">>), <<"getrandom">>, NoRng)
  ELSE LET rng == ChaCha20Rng_from_seed(seed.buf, seed.src)
           kg == ml_kem_768_try_keygen_with_rng(rng) IN
       IF ~kg.ok THEN Out(Err(<<"Key generation failed">>), <<"getrandom", "keygen">>, rng)
       ELSE Out(Ok(KeyPair(EncapsKey_into_bytes(kg.ek), DecapsKey_into_bytes(kg.dk))), <<"getrandom", "keygen">>, rng)

\* variant of from_seed that finalizes the hasher without feeding it the seed
VollyKEM_from_seed_no_update(seed) ==
  IF seed.len # SEED_LEN THEN Out(Err(<<"Seed must be exactly 32 bytes">>), <<>>, NoRng)
  ELSE LET seed_array == Sha3_256(Bytes(0, <<0>>))
           rng == ChaCha20Rng_from_seed(seed_array, 0)
           kg == ml_kem_768_try_keygen_with_rng(rng) IN
       Out(Ok(KeyPair(EncapsKey_into_bytes(kg.ek), DecapsKey_into_bytes(kg.dk))), <<"sha3", "keygen">>, rng)

\* variant of from_seed that seeds the generator with the caller's seed
VollyKEM_from_seed_raw(seed) ==
  IF seed.len # SEED_LEN THEN Out(Err(<<"Seed must be exactly 32 bytes">>), <<>>, NoRng)
  ELSE LET rng == ChaCha20Rng_from_seed(seed, 0)
           kg == ml_kem_768_try_keygen_with_rng(rng) IN
       Out(Ok(KeyPair(EncapsKey_into_bytes(kg.ek), DecapsKey_into_bytes(kg.dk))), <<"keygen">>, rng)

\* VollyKEM::from_seed
VollyKEM_from_seed(seed) ==
  IF seed.len # SEED_LEN THEN Out(Err(<<"Seed must be exactly 32 bytes">>), <<>>, NoRng)
  ELSE LET seed_array == Sha3_256(seed)
           rng == ChaCha20Rng_from_seed(seed_array, 0)
           kg == ml_kem_768_try_keygen_with_rng(rng) IN
       IF ~kg.ok THEN Out(Err(<<"Key generation failed">>), <<"sha3", "keygen">>, rng)
       ELSE Out(Ok(KeyPair(EncapsKey_into_bytes(kg.ek), DecapsKey_into_bytes(kg.dk))), <<"sha3", "keygen">>, rng)

\* variant of encapsulate that keeps the generator seed of the previous
\* call when there is one, instead of drawing
VollyKEM_encapsulate_cached(self, public_key, e) ==
  IF public_key.len # EK_LEN THEN Out(Err(<<"Invalid public key length", EK_LEN, public_key.len>>), <<>>, NoRng)
  ELSE LET ek == EncapsKey_try_from_bytes(public_key) IN
  IF ~ek.ok THEN Out(Err(<<"Invalid public key">>), <<"decode_ek">>, NoRng)
  ELSE IF last.rng.src # 0
       THEN LET enc == try_encaps_with_rng(ek.ek, last.rng) IN
            Out(Ok([ciphertext |-> enc.ciphertext, shared_secret |-> enc.shared_secret]), <<"decode_ek", "encaps">>, last.rng)
  ELSE LET seed == getrandom(e) IN
  IF ~seed.ok THEN Out(Err(<<"Random generation failed">>), <<"decode_ek", "getrandom">>, NoRng)
  ELSE LET rng == ChaCha20Rng_from_seed(seed.buf, seed.src)
           enc == try_encaps_with_rng(ek.ek, rng) IN
  Out(Ok([ciphertext |-> enc.ciphertext, shared_secret |-> enc.shared_secret]), <<"decode_ek", "getrandom", "encaps">>, rng)

\* variant of encapsulate that takes the primitive's (shared secret,
\* ciphertext) pair in the other order
VollyKEM_encapsulate_swapped(self, public_key, e) ==
  IF public_key.len # EK_LEN THEN Out(Err(<<"Invalid public key length", EK_LEN, public_key.len>>), <<>>, NoRng)
  ELSE LET ek == EncapsKey_try_from_bytes(public_key) IN
  IF ~ek.ok THEN Out(Err(<<"Invalid public key">>), <<"decode_ek">>, NoRng)
  ELSE LET seed == getrandom(e) IN
  IF ~seed.ok THEN Out(Err(<<"Random generation failed">>), <<"decode_ek", "getrandom">>, NoRng)
  ELSE LET rng == ChaCha20Rng_from_seed(seed.buf, seed.src)
           enc == try_encaps_with_rng(ek.ek, rng) IN
  Out(Ok([ciphertext |-> enc.shared_secret, shared_secret |-> enc.ciphertext]), <<"decode_ek", "getrandom", "encaps">>, rng)

\* VollyKEM::encapsulate (&self is not read)
VollyKEM_encapsulate(self, public_key, e) ==
  IF public_key.len # EK_LEN THEN Out(Err(<<"Invalid public key length", EK_LEN, public_key.len>>), <<>>, NoRng)
  ELSE LET ek == EncapsKey_try_from_bytes(public_key) IN
  IF ~ek.ok THEN Out(Err(<<"Invalid public key">>), <<"decode_ek">>, NoRng)
  ELSE LET seed == getrandom(e) IN
  IF ~seed.ok THEN Out(Err(<<"Random generation failed">>), <<"decode_ek", "getrandom">>, NoRng)
  ELSE LET rng == ChaCha20Rng_from_seed(seed.buf, seed.src)
           enc == try_encaps_with_rng(ek.ek, rng) IN
  IF ~enc.ok THEN Out(Err(<<"Encapsulation failed">>), <<"decode_ek", "getrandom", "encaps">>, rng)
  ELSE Out(Ok([ciphertext |-> enc.ciphertext, shared_secret |-> enc.shared_secret]), <<"decode_ek", "getrandom", "encaps">>, rng)

\* VollyKEM::decapsulate
VollyKEM_decapsulate(self, ciphertext) ==
  IF ciphertext.len # CT_LEN THEN Out(Err(<<"Invalid ciphertext length", CT_LEN, ciphertext.len>>), <<>>, NoRng)
  ELSE LET ct == CipherText_try_from_bytes(ciphertext) IN
  IF ~ct.ok THEN Out(Err(<<"Invalid ciphertext">>), <<"decode_ct">>, NoRng)
  ELSE IF self.secret_key.len # DK_LEN THEN Out(Err(<<"Invalid secret key length", DK_LEN, self.secret_key.len>>), <<"decode_ct">>, NoRng)
  ELSE LET dk == DecapsKey_try_from_bytes(self.secret_key) IN
  IF ~dk.ok THEN Out(Err(<<"Invalid secret key">>), <<"decode_ct", "decode_dk">>, NoRng)
  ELSE LET dec == try_decaps(dk.dk, ct.ct) IN
  IF ~dec.ok THEN Out(Err(<<"Decapsulation failed">>), <<"decode_ct", "decode_dk", "decaps">>, NoRng)
  ELSE Out(Ok(dec.shared_secret), <<"decode_ct", "decode_dk", "decaps">>, NoRng)

\* variant of decapsulate_with_key that checks and decodes the secret key
\* before the ciphertext
VollyKEM_decapsulate_with_key_key_first(secret_key, ciphertext) ==
  IF secret_key.len # DK_LEN THEN Out(Err(<<"Invalid secret key length", DK_LEN, secret_key.len>>), <<>>, NoRng)
  ELSE LET dk == DecapsKey_try_from_bytes(secret_key) IN
  IF ~dk.ok THEN Out(Err(<<"Invalid secret key">>), <<"decode_dk">>, NoRng)
  ELSE IF ciphertext.len # CT_LEN THEN Out(Err(<<"Invalid ciphertext length", CT_LEN, ciphertext.len>>), <<"decode_dk">>, NoRng)
  ELSE LET ct == CipherText_try_from_bytes(ciphertext) IN
  IF ~ct.ok THEN Out(Err(<<"Invalid ciphertext">>), <<"decode_dk", "decode_ct">>, NoRng)
  ELSE LET dec == try_decaps(dk.dk, ct.ct) IN
  Out(Ok(dec.shared_secret), <<"decode_dk", "decode_ct", "decaps">>, NoRng)

\* VollyKEM::decapsulate_with_key
VollyKEM_decapsulate_with_key(secret_key, ciphertext) ==
  IF ciphertext.len # CT_LEN THEN Out(Err(<<"Invalid ciphertext length", CT_LEN, ciphertext.len>>), <<>>, NoRng)
  ELSE LET ct == CipherText_try_from_bytes(ciphertext) IN
  IF ~ct.ok THEN Out(Err(<<"Invalid ciphertext">>), <<"decode_ct">>, NoRng)
  ELSE IF secret_key.len # DK_LEN THEN Out(Err(<<"Invalid secret key length", DK_LEN, secret_key.len>>), <<"decode_ct">>, NoRng)
  ELSE LET dk == DecapsKey_try_from_bytes(secret_key) IN
  IF ~dk.ok THEN Out(Err(<<"Invalid secret key">>), <<"decode_ct", "decode_dk">>, NoRng)
  ELSE LET dec == try_decaps(dk.dk, ct.ct) IN
  IF ~dec.ok THEN Out(Err(<<"Decapsulation failed">>), <<"decode_ct", "decode_dk", "decaps">>, NoRng)
  ELSE Out(Ok(dec.shared_secret), <<"decode_ct", "decode_dk", "decaps">>, NoRng)

\* variant of from_keys that checks the public key's length only
VollyKEM_from_keys_no_secret_check(public_key, secret_key) ==
  IF public_key.len # EK_LEN THEN Out(Err(<<"Invalid public key length", EK_LEN, public_key.len>>), <<>>, NoRng)
  ELSE Out(Ok(KeyPair(public_key, secret_key)), <<>>, NoRng)

\* variant of from_keys that also decodes both keys
VollyKEM_from_keys_decoding(public_key, secret_key) ==
  IF public_key.len # EK_LEN THEN Out(Err(<<"Invalid public key length", EK_LEN, public_key.len>>), <<>>, NoRng)
  ELSE IF secret_key.len # DK_LEN THEN Out(Err(<<"Invalid secret key length", DK_LEN, secret_key.len>>), <<>>, NoRng)
  ELSE IF ~EncapsKey_try_from_bytes(public_key).ok THEN Out(Err(<<"Invalid public key">>), <<"decode_ek">>, NoRng)
  ELSE IF ~DecapsKey_try_from_bytes(secret_key).ok THEN Out(Err(<<"Invalid secret key">>), <<"decode_ek", "decode_dk">>, NoRng)
  ELSE Out(Ok(KeyPair(public_key, secret_key)), <<"decode_ek", "decode_dk">>, NoRng)

\* VollyKEM::from_keys
VollyKEM_from_keys(public_key, secret_key) ==
  IF public_key.len # EK_LEN THEN Out(Err(<<"Invalid public key length", EK_LEN, public_key.len>>), <<>>, NoRng)
  ELSE IF secret_key.len # DK_LEN THEN Out(Err(<<"Invalid secret key length", DK_LEN, secret_key.len>>), <<>>, NoRng)
  ELSE Out(Ok(KeyPair(public_key, secret_key)), <<>>, NoRng)

\* ------------------------------------------------------------- VollyDSA
\* VollyDSA::new
VollyDSA_new(e) ==
  LET seed == getrandom(e) IN
  IF ~seed.ok THEN Out(Err(<<"Random generation failed">>), <<"getrandom">>, NoRng)
  ELSE LET rng == ChaCha20Rng_from_seed(seed.buf, seed.src)
           kg == ml_dsa_65_try_keygen_with_rng(rng) IN
       IF ~kg.ok THEN Out(Err(<<"Key generation failed">>), <<"getrandom", "keygen">>, rng)
       ELSE Out(Ok(KeyPair(PublicKey_into_bytes(kg.pk), PrivateKey_into_bytes(kg.sk))), <<"getrandom", "keygen">>, rng)

\* VollyDSA::from_seed
VollyDSA_from_seed(seed) ==
  IF seed.len # SEED_LEN THEN Out(Err(<<"Seed must be exactly 32 bytes">>), <<>>, NoRng)
  ELSE LET seed_array == Sha3_256(seed)
           rng == ChaCha20Rng_from_seed(seed_array, 0)
           kg == ml_dsa_65_try_keygen_with_rng(rng) IN
       IF ~kg.ok THEN Out(Err(<<"Key generation failed">>), <<"sha3", "keygen">>, rng)
       ELSE Out(Ok(KeyPair(PublicKey_into_bytes(kg.pk), PrivateKey_into_bytes(kg.sk))), <<"sha3", "keygen">>, rng)

\* variant of sign that signs under a non-empty context
VollyDSA_sign_other_context(self, message, e) ==
  IF self.secret_key.len # SK_LEN THEN Out(Err(<<"Invalid secret key length", SK_LEN, self.secret_key.len>>), <<>>, NoRng)
  ELSE LET sk == PrivateKey_try_from_bytes(self.secret_key) IN
  IF ~sk.ok THEN Out(Err(<<"Invalid secret key">>), <<"decode_sk">>, NoRng)
  ELSE LET seed == getrandom(e) IN
  IF ~seed.ok THEN Out(Err(<<"Random generation failed">>), <<"decode_sk", "getrandom">>, NoRng)
  ELSE LET rng == ChaCha20Rng_from_seed(seed.buf, seed.src)
           context == Bytes(1, <<"ctx", 1>>)
           sg == try_sign_with_rng(sk.sk, rng, message, context) IN
  Out(Ok(sg.signature), <<"decode_sk", "getrandom", "sign">>, rng)

\* VollyDSA::sign
VollyDSA_sign(self, message, e) ==
  IF self.secret_key.len # SK_LEN THEN Out(Err(<<"Invalid secret key length", SK_LEN, self.secret_key.len>>), <<>>, NoRng)
  ELSE LET sk == PrivateKey_try_from_bytes(self.secret_key) IN
  IF ~sk.ok THEN Out(Err(<<"Invalid secret key">>), <<"decode_sk">>, NoRng)
  ELSE LET seed == getrandom(e) IN
  IF ~seed.ok THEN Out(Err(<<"Random generation failed">>), <<"decode_sk", "getrandom">>, NoRng)
  ELSE LET rng == ChaCha20Rng_from_seed(seed.buf, seed.src)
           context == EmptyContext
           sg == try_sign_with_rng(sk.sk, rng, message, context) IN
  IF ~sg.ok THEN Out(Err(<<"Signing failed">>), <<"decode_sk", "getrandom", "sign">>, rng)
  ELSE Out(Ok(sg.signature), <<"decode_sk", "getrandom", "sign">>, rng)

\* VollyDSA::sign_with_key
VollyDSA_sign_with_key(secret_key, message, e) ==
  IF secret_key.len # SK_LEN THEN Out(Err(<<"Invalid secret key length", SK_LEN, secret_key.len>>), <<>>, NoRng)
  ELSE LET sk == PrivateKey_try_from_bytes(secret_key) IN
  IF ~sk.ok THEN Out(Err(<<"Invalid secret key">>), <<"decode_sk">>, NoRng)
  ELSE LET seed == getrandom(e) IN
  IF ~seed.ok THEN Out(Err(<<"Random generation failed">>), <<"decode_sk", "getrandom">>, NoRng)
  ELSE LET rng == ChaCha20Rng_from_seed(seed.buf, seed.src)
           context == EmptyContext
           sg == try_sign_with_rng(sk.sk, rng, message, context) IN
  IF ~sg.ok THEN Out(Err(<<"Signing failed">>), <<"decode_sk", "getrandom", "sign">>, rng)
  ELSE Out(Ok(sg.signature), <<"decode_sk", "getrandom", "sign">>, rng)

\* variant of verify_with_key that reports a failed verification as an error
VollyDSA_verify_with_key_throws(public_key, message, signature) ==
  IF public_key.len # PK_LEN THEN Out(Err(<<"Invalid public key length", PK_LEN, public_key.len>>), <<>>, NoRng)
  ELSE LET pk == PublicKey_try_from_bytes(public_key) IN
  IF ~pk.ok THEN Out(Err(<<"Invalid public key">>), <<"decode_pk">>, NoRng)
  ELSE IF signature.len # SIG_LEN THEN Out(Err(<<"Invalid signature length", SIG_LEN, signature.len>>), <<"decode_pk">>, NoRng)
  ELSE LET context == EmptyContext
           valid == verify(pk.pk, message, signature, context) IN
  IF ~valid THEN Out(Err(<<"Verification failed">>), <<"decode_pk", "verify">>, NoRng)
  ELSE Out(Ok([b |-> valid]), <<"decode_pk", "verify">>, NoRng)

\* VollyDSA::verify_with_key
VollyDSA_verify_with_key(public_key, message, signature) ==
  IF public_key.len # PK_LEN THEN Out(Err(<<"Invalid public key length", PK_LEN, public_key.len>>), <<>>, NoRng)
  ELSE LET pk == PublicKey_try_from_bytes(public_key) IN
  IF ~pk.ok THEN Out(Err(<<"Invalid public key">>), <<"decode_pk">>, NoRng)
  ELSE IF signature.len # SIG_LEN THEN Out(Err(<<"Invalid signature length", SIG_LEN, signature.len>>), <<"decode_pk">>, NoRng)
  ELSE LET context == EmptyContext
           valid == verify(pk.pk, message, signature, context) IN
  Out(Ok([b |-> valid]), <<"decode_pk", "verify">>, NoRng)

\* -------------------------------------------------------------- instances
NoBytes == Bytes(0, <<>>)
NoInstance == [live |-> FALSE, public_key |-> NoBytes, secret_key |-> NoBytes]
Instance(kp) == [live |-> TRUE, public_key |-> kp.public_key, secret_key |-> kp.secret_key]

NoEntropy == [ok |-> FALSE, v |-> 0, id |-> 0]

Range(f) == {f[i] : i \in DOMAIN f}
NumDraws(trace) == Cardinality({i \in DOMAIN trace : trace[i] = "getrandom"})

\* ------------------------------------------------------------- accessors
\* The getters take &self and return a copy of the held buffer
\* (Uint8Array::from(&self.public_key[..])); self: the instance after the call.
Got(bytes, self) == [ret |-> Ok(bytes), trace |-> <<>>, rng |-> NoRng, self |-> self]

\* variant of the getter that moves the buffer out of the instance
VollyKEM_public_key_take(self) == Got(self.public_key, [self EXCEPT !.public_key = NoBytes])

\* VollyKEM::public_key
VollyKEM_public_key(self) == Got(self.public_key, self)

\* VollyKEM::secret_key
VollyKEM_secret_key(self) == Got(self.secret_key, self)

\* VollyDSA::public_key
VollyDSA_public_key(self) == Got(self.public_key, self)

\* VollyDSA::secret_key
VollyDSA_secret_key(self) == Got(self.secret_key, self)

\* --------------------------------------------------------------- inputs
\* what the secure random source does at the next draw
Entropy == {[ok |-> FALSE, v |-> 0, id |-> draws + 1]} \cup {[ok |-> TRUE, v |-> r, id |-> draws + 1] : r \in RandVals}

Junk(n) == Bytes(n, <<"junk", 0>>)
WrongLen(n) == {Junk(n - 1)}

SeedInputs == {Bytes(SEED_LEN, <<s>>) : s \in SeedVals} \cup WrongLen(SEED_LEN)
Messages == {Bytes(0, <<>>)} \cup {Bytes(n, <<"msg", n>>) : n \in 1 .. MaxMsgLen}

\* a well-formed key of a key pair generated elsewhere
OtherKey == MaxSeed + 1
EKInputs == {Bytes(EK_LEN, <<"ek", OtherKey>>)} \cup {Junk(EK_LEN)} \cup WrongLen(EK_LEN)
DKInputs == {Bytes(DK_LEN, <<"dk", OtherKey>>)} \cup {Junk(DK_LEN)} \cup WrongLen(DK_LEN)
CTInputs == (IF last.op = "VollyKEM::encapsulate" /\ last.ret.ok THEN {last.ret.val.ciphertext} ELSE {}) \cup {Junk(CT_LEN)} \cup WrongLen(CT_LEN)
PKInputs == {Bytes(PK_LEN, <<"pk", OtherKey>>)} \cup {Junk(PK_LEN)} \cup WrongLen(PK_LEN)
SKInputs == {Bytes(SK_LEN, <<"sk", OtherKey>>)} \cup {Junk(SK_LEN)} \cup WrongLen(SK_LEN)
SIGInputs == (IF last.op \in {"VollyDSA::sign", "VollyDSA::sign_with_key"} /\ last.ret.ok THEN {last.ret.val} ELSE {}) \cup {Junk(SIG_LEN)} \cup WrongLen(SIG_LEN)

\* ---------------------------------------------------------------- calls
Returned(op, args, e, out) ==
  /\ last' = [op |-> op, args |-> args, e |-> IF NumDraws(out.trace) > 0 THEN e ELSE NoEntropy,
              ret |-> out.ret, trace |-> out.trace, rng |-> out.rng]
  /\ draws' = draws + NumDraws(out.trace)

Init ==
  /\ kem = NoInstance
  /\ dsa = NoInstance
  /\ last = [op |-> "none", args |-> NoVal, e |-> NoEntropy, ret |-> Err(<<>>), trace |-> <<>>, rng |-> NoRng]
  /\ draws = 0

KemNew ==
  /\ draws < MaxDraws
  /\ \E e \in Entropy :
       LET out == VollyKEM_new(e) IN
       /\ Returned("VollyKEM::new", NoVal, e, out)
       /\ kem' = IF out.ret.ok THEN Instance(out.ret.val) ELSE kem
  /\ UNCHANGED dsa

KemFromSeed ==
  /\ \E seed \in SeedInputs :
       LET out == VollyKEM_from_seed(seed) IN
       /\ Returned("VollyKEM::from_seed", [seed |-> seed], NoEntropy, out)
       /\ kem' = IF out.ret.ok THEN Instance(out.ret.val) ELSE kem
  /\ UNCHANGED dsa

KemFromKeys ==
  /\ \E public_key \in EKInputs \cup (IF kem.live THEN {kem.public_key} ELSE {}), secret_key \in DKInputs :
       LET out == VollyKEM_from_keys(public_key, secret_key) IN
       /\ Returned("VollyKEM::from_keys", [public_key |-> public_key, secret_key |-> secret_key], NoEntropy, out)
       /\ kem' = IF out.ret.ok THEN Instance(out.ret.val) ELSE kem
  /\ UNCHANGED dsa

KemEncapsulate ==
  /\ kem.live
  /\ draws < MaxDraws
  /\ \E public_key \in EKInputs \cup {kem.public_key}, e \in Entropy :
       LET out == VollyKEM_encapsulate(kem, public_key, e) IN
       Returned("VollyKEM::encapsulate", [public_key |-> public_key], e, out)
  /\ UNCHANGED <<kem, dsa>>

KemDecapsulate ==
  /\ kem.live
  /\ \E ciphertext \in CTInputs :
       LET out == VollyKEM_decapsulate(kem, ciphertext) IN
       Returned("VollyKEM::decapsulate", [ciphertext |-> ciphertext], NoEntropy, out)
  /\ UNCHANGED <<kem, dsa>>

KemDecapsulateWithKey ==
  /\ \E secret_key \in DKInputs \cup (IF kem.live THEN {kem.secret_key} ELSE {}), ciphertext \in CTInputs :
       LET out == VollyKEM_decapsulate_with_key(secret_key, ciphertext) IN
       Returned("VollyKEM::decapsulate_with_key", [secret_key |-> secret_key, ciphertext |-> ciphertext], NoEntropy, out)
  /\ UNCHANGED <<kem, dsa>>

DsaNew ==
  /\ draws < MaxDraws
  /\ \E e \in Entropy :
       LET out == VollyDSA_new(e) IN
       /\ Returned("VollyDSA::new", NoVal, e, out)
       /\ dsa' = IF out.ret.ok THEN Instance(out.ret.val) ELSE dsa
  /\ UNCHANGED kem

DsaFromSeed ==
  /\ \E seed \in SeedInputs :
       LET out == VollyDSA_from_seed(seed) IN
       /\ Returned("VollyDSA::from_seed", [seed |-> seed], NoEntropy, out)
       /\ dsa' = IF out.ret.ok THEN Instance(out.ret.val) ELSE dsa
  /\ UNCHANGED kem

DsaSign ==
  /\ dsa.live
  /\ draws < MaxDraws
  /\ \E message \in Messages, e \in Entropy :
       LET out == VollyDSA_sign(dsa, message, e) IN
       Returned("VollyDSA::sign", [message |-> message], e, out)
  /\ UNCHANGED <<kem, dsa>>

DsaSignWithKey ==
  /\ draws < MaxDraws
  /\ \E secret_key \in SKInputs \cup (IF dsa.live THEN {dsa.secret_key} ELSE {}), message \in Messages, e \in Entropy :
       LET out == VollyDSA_sign_with_key(secret_key, message, e) IN
       Returned("VollyDSA::sign_with_key", [secret_key |-> secret_key, message |-> message], e, out)
  /\ UNCHANGED <<kem, dsa>>

DsaVerifyWithKey ==
  /\ \E public_key \in PKInputs \cup (IF dsa.live THEN {dsa.public_key} ELSE {}), message \in Messages, signature \in SIGInputs :
       LET out == VollyDSA_verify_with_key(public_key, message, signature) IN
       Returned("VollyDSA::verify_with_key", [public_key |-> public_key, message |-> message, signature |-> signature], NoEntropy, out)
  /\ UNCHANGED <<kem, dsa>>

KemPublicKey ==
  /\ kem.live
  /\ LET out == VollyKEM_public_key(kem) IN
       /\ Returned("VollyKEM::public_key", NoVal, NoEntropy, out)
       /\ kem' = out.self
  /\ UNCHANGED dsa

KemSecretKey ==
  /\ kem.live
  /\ LET out == VollyKEM_secret_key(kem) IN
       /\ Returned("VollyKEM::secret_key", NoVal, NoEntropy, out)
       /\ kem' = out.self
  /\ UNCHANGED dsa

DsaPublicKey ==
  /\ dsa.live
  /\ LET out == VollyDSA_public_key(dsa) IN
       /\ Returned("VollyDSA::public_key", NoVal, NoEntropy, out)
       /\ dsa' = out.self
  /\ UNCHANGED kem

DsaSecretKey ==
  /\ dsa.live
  /\ LET out == VollyDSA_secret_key(dsa) IN
       /\ Returned("VollyDSA::secret_key", NoVal, NoEntropy, out)
       /\ dsa' = out.self
  /\ UNCHANGED kem

Next ==
  \/ KemNew
  \/ KemFromSeed
  \/ KemFromKeys
  \/ KemEncapsulate
  \/ KemDecapsulate
  \/ KemDecapsulateWithKey
  \/ DsaNew
  \/ DsaFromSeed
  \/ DsaSign
  \/ DsaSignWithKey
  \/ DsaVerifyWithKey
  \/ KemPublicKey
  \/ KemSecretKey
  \/ DsaPublicKey
  \/ DsaSecretKey

Spec == Init /\ [][Next]_vars

\* ================================================================ claims
\* the key pairs one keygen call can produce
GeneratedKEM == {KeyPair(EncapsKey_into_bytes([k |-> s]), DecapsKey_into_bytes([k |-> s])) : s \in SeedVals}
GeneratedDSA == {KeyPair(PublicKey_into_bytes([k |-> s]), PrivateKey_into_bytes([k |-> s])) : s \in SeedVals}
Held(inst) == KeyPair(inst.public_key, inst.secret_key)

\* ---------------------------------------------------------------- C1
\* C1 as stated: verify_with_key with a PK_LEN-byte public key and a
\* SIG_LEN-byte signature returns a boolean whatever the bytes are, and an
\* error only for a wrong length.
C1_VerifyNeverErrsOnRightLengths ==
  last.op = "VollyDSA::verify_with_key" =>
    (last.ret.ok <=> (last.args.public_key.len = PK_LEN /\ last.args.signature.len = SIG_LEN))

\* C1 amended: verify_with_key returns an error exactly when the public key
\* has the wrong length, the PK_LEN-byte public key fails the primitive's
\* decode, or the signature has the wrong length; otherwise it returns a
\* boolean whatever the signature's bytes are, and false for a signature
\* made under a different key.
C1_VerifyErrsOnlyOnMalformedInput ==
  last.op = "VollyDSA::verify_with_key" =>
    LET pk == last.args.public_key
        sig == last.args.signature
    IN /\ last.ret.ok <=> (pk.len = PK_LEN /\ PublicKey_try_from_bytes(pk).ok /\ sig.len = SIG_LEN)
       /\ last.ret.ok => last.ret.val \in {[b |-> TRUE], [b |-> FALSE]}
       /\ ~last.ret.ok => last.ret.err \in {<<"Invalid public key length", PK_LEN, pk.len>>,
                                            <<"Invalid public key">>,
                                            <<"Invalid signature length", SIG_LEN, sig.len>>}
       /\ (last.ret.ok /\ (sig.v[1] # "sig" \/ sig.v[2] # pk.v[2])) => last.ret.val = [b |-> FALSE]

\* a valid signature verified against a different well-formed public key: false
C1_Witness ==
  /\ last.op = "VollyDSA::verify_with_key"
  /\ last.args.signature.v[1] = "sig"
  /\ dsa.live
  /\ last.args.signature.v[2] = dsa.secret_key.v[2]
  /\ last.args.public_key # dsa.public_key
  /\ last.ret = Ok([b |-> FALSE])

\* ---------------------------------------------------------------- C2
\* C2: after a successful encapsulate against the public key of a pair made
\* by one keygen call, decapsulate on the instance holding that pair, and
\* decapsulate_with_key with its secret key, return exactly the shared
\* secret of that encapsulation, 32 bytes long.
C2_Encapsulated ==
  /\ last.op = "VollyKEM::encapsulate"
  /\ last.ret.ok
  /\ Held(kem) \in GeneratedKEM
  /\ last.args.public_key = kem.public_key

C2_DecapsulateStep ==
  (/\ C2_Encapsulated
   /\ last'.op \in {"VollyKEM::decapsulate", "VollyKEM::decapsulate_with_key"}
   /\ last'.args.ciphertext = last.ret.val.ciphertext
   /\ last'.op = "VollyKEM::decapsulate_with_key" => last'.args.secret_key = kem.secret_key)
  => /\ last'.ret = Ok(last.ret.val.shared_secret)
     /\ last'.ret.val.len = SS_LEN

\* C2: every decapsulation of a ciphertext just encapsulated to the held
\* generated key pair returns that encapsulation's 32-byte shared secret.
C2_KemRoundTrip == [][C2_DecapsulateStep]_vars

\* a decapsulation that returned the encapsulated (not the rejection) secret
C2_Witness ==
  /\ last.op \in {"VollyKEM::decapsulate", "VollyKEM::decapsulate_with_key"}
  /\ Held(kem) \in GeneratedKEM
  /\ last.ret.ok
  /\ last.ret.val.v[1] = "ss"
  /\ last.ret.val.v[2] = kem.secret_key.v[2]

\* ---------------------------------------------------------------- C3
\* C3: a signature returned by sign(m) on an instance, or by
\* sign_with_key(priv, m) with the instance's secret key, verifies (Ok(true))
\* under that instance's public key and m, the empty message included, for
\* every draw; the signature was made under the empty context, the one
\* verify_with_key passes.
C3_Signed ==
  /\ last.op \in {"VollyDSA::sign", "VollyDSA::sign_with_key"}
  /\ last.ret.ok
  /\ Held(dsa) \in GeneratedDSA
  /\ last.op = "VollyDSA::sign_with_key" => last.args.secret_key = dsa.secret_key

C3_VerifyStep ==
  (/\ C3_Signed
   /\ last'.op = "VollyDSA::verify_with_key"
   /\ last'.args.signature = last.ret.val
   /\ last'.args.message = last.args.message
   /\ last'.args.public_key = dsa.public_key)
  => /\ last'.ret = Ok([b |-> TRUE])
     /\ last.ret.val.v[4] = EmptyContext

\* C3: every verification of a signature just made with the held key pair,
\* for the same message and the held public key, returns Ok(true).
C3_SignVerifyRoundTrip == [][C3_VerifyStep]_vars

\* the empty message, signed and verified
C3_Witness ==
  /\ last.op = "VollyDSA::verify_with_key"
  /\ last.args.message.len = 0
  /\ last.args.public_key = dsa.public_key
  /\ last.ret = Ok([b |-> TRUE])

\* ---------------------------------------------------------------- C4
\* the call in c was given a caller-supplied input of the wrong length
WrongLengthInput(c) ==
  CASE c.op \in {"VollyKEM::from_seed", "VollyDSA::from_seed"} -> c.args.seed.len # SEED_LEN
    [] c.op = "VollyKEM::encapsulate" -> c.args.public_key.len # EK_LEN
    [] c.op = "VollyKEM::decapsulate" -> c.args.ciphertext.len # CT_LEN
    [] c.op = "VollyKEM::decapsulate_with_key" -> c.args.secret_key.len # DK_LEN \/ c.args.ciphertext.len # CT_LEN
    [] c.op = "VollyKEM::from_keys" -> c.args.public_key.len # EK_LEN \/ c.args.secret_key.len # DK_LEN
    [] c.op = "VollyDSA::sign_with_key" -> c.args.secret_key.len # SK_LEN
    [] c.op = "VollyDSA::verify_with_key" -> c.args.public_key.len # PK_LEN \/ c.args.signature.len # SIG_LEN
    [] OTHER -> FALSE

LengthErrors == {"Seed must be exactly 32 bytes", "Invalid public key length", "Invalid secret key length",
                 "Invalid ciphertext length", "Invalid signature length"}

\* C4: a call given a wrong-length input returns a length error, and
\* attempted no decode, keygen, encaps, decaps, sign, verify or entropy draw
\* before returning it.
C4_WrongLengthRejectedBeforeAnyOperation ==
  WrongLengthInput(last) =>
    /\ ~last.ret.ok
    /\ last.ret.err[1] \in LengthErrors
    /\ last.trace = <<>>

\* ---------------------------------------------------------------- C5
FromSeedOps == {"VollyKEM::from_seed", "VollyDSA::from_seed"}

\* C5: of two successive successful from_seed calls of the same struct, the
\* key pairs are byte-identical exactly when the seeds are equal; and no
\* from_seed call draws from the secure random source.
C5_FromSeedStep ==
  /\ (last.op \in FromSeedOps /\ last'.op = last.op /\ last.ret.ok /\ last'.ret.ok)
       => ((last'.args.seed = last.args.seed) <=> (last'.ret.val = last.ret.val))
  /\ last'.op \in FromSeedOps => (NumDraws(last'.trace) = 0 /\ draws' = draws /\ last'.rng.src = 0)

\* C5: from_seed is deterministic, seed-separating and draws no entropy.
C5_FromSeedDeterministic == [][C5_FromSeedStep]_vars

\* a from_seed call that built the held instance after draws were made
C5_Witness ==
  /\ last.op = "VollyKEM::from_seed"
  /\ last.ret.ok
  /\ Held(kem) = last.ret.val
  /\ draws > 0

\* ---------------------------------------------------------------- C6
DrawOf(seed) == [ok |-> TRUE, v |-> seed.v[1], id |-> draws + 1]

\* C6: from_seed succeeds exactly for a 32-byte seed, and returns the key
\* pair new would return had its draw been SHA3-256(seed); whenever
\* SHA3-256(seed) differs from seed, that is not the pair of a new whose
\* draw is the raw seed.
C6_FromSeedIsNewOnHash ==
  /\ last.op = "VollyKEM::from_seed" =>
       /\ last.ret.ok <=> last.args.seed.len = SEED_LEN
       /\ last.ret.ok =>
            /\ last.ret.val = VollyKEM_new(DrawOf(Sha3_256(last.args.seed))).ret.val
            /\ Sha3_256(last.args.seed) # last.args.seed
                 => last.ret.val # VollyKEM_new(DrawOf(last.args.seed)).ret.val
  /\ last.op = "VollyDSA::from_seed" =>
       /\ last.ret.ok <=> last.args.seed.len = SEED_LEN
       /\ last.ret.ok =>
            /\ last.ret.val = VollyDSA_new(DrawOf(Sha3_256(last.args.seed))).ret.val
            /\ Sha3_256(last.args.seed) # last.args.seed
                 => last.ret.val # VollyDSA_new(DrawOf(last.args.seed)).ret.val

\* a successful from_seed whose digest differs from its seed
C6_Witness ==
  /\ last.op = "VollyKEM::from_seed"
  /\ last.ret.ok
  /\ Sha3_256(last.args.seed) # last.args.seed
  /\ last.rng.seed = Sha3_256(last.args.seed)

\* ---------------------------------------------------------------- C7
EntropyOps == {"VollyKEM::new", "VollyDSA::new", "VollyKEM::encapsulate", "VollyDSA::sign", "VollyDSA::sign_with_key"}

\* the call in c, made on instance d where it is a method, passes every
\* check that precedes its entropy draw
ReachesDraw(c, d) ==
  CASE c.op \in {"VollyKEM::new", "VollyDSA::new"} -> TRUE
    [] c.op = "VollyKEM::encapsulate" -> c.args.public_key.len = EK_LEN /\ EncapsKey_try_from_bytes(c.args.public_key).ok
    [] c.op = "VollyDSA::sign" -> d.secret_key.len = SK_LEN /\ PrivateKey_try_from_bytes(d.secret_key).ok
    [] c.op = "VollyDSA::sign_with_key" -> c.args.secret_key.len = SK_LEN /\ PrivateKey_try_from_bytes(c.args.secret_key).ok
    [] OTHER -> FALSE

\* C7: every call adds one draw to the count exactly when it is an
\* entropy-needing call that reached its draw; a successful new,
\* encapsulate, sign or sign_with_key seeded its generator with the bytes of
\* the draw made during that very call; two successive successful such calls
\* used two distinct draws.
C7_Step ==
  /\ draws' = draws + (IF ReachesDraw(last', dsa) THEN 1 ELSE 0)
  /\ (last'.op \in EntropyOps /\ last'.ret.ok) =>
       /\ NumDraws(last'.trace) = 1
       /\ last'.e.ok
       /\ last'.e.id = draws'
       /\ last'.e.id > draws
       /\ last'.rng = [seed |-> Bytes(SEED_LEN, <<last'.e.v>>), src |-> last'.e.id]
  /\ (last.op \in EntropyOps /\ last.ret.ok /\ last'.op \in EntropyOps /\ last'.ret.ok)
       => last'.rng.src # last.rng.src

\* C7: every entropy-needing call that reaches its draw makes one fresh draw
\* and uses it, and no other call draws.
C7_FreshDrawPerCall == [][C7_Step]_vars

\* an encapsulation seeded by the second draw of the behaviour
C7_Witness ==
  /\ last.op = "VollyKEM::encapsulate"
  /\ last.ret.ok
  /\ draws = 2
  /\ last.rng.src = 2

\* ---------------------------------------------------------------- C8
\* C8: a call during which the secure random source fails is a new,
\* encapsulate, sign or sign_with_key call that returns the entropy error
\* after exactly one draw attempt, the last thing it did: no keygen, encaps
\* or sign, no generator seeded, no value returned, and both held instances
\* unchanged.
C8_Step ==
  (NumDraws(last'.trace) > 0 /\ ~last'.e.ok) =>
    /\ last'.op \in EntropyOps
    /\ last'.ret = Err(<<"Random generation failed">>)
    /\ NumDraws(last'.trace) = 1
    /\ last'.trace[Len(last'.trace)] = "getrandom"
    /\ Range(last'.trace) \cap {"keygen", "encaps", "sign"} = {}
    /\ last'.rng = NoRng
    /\ draws' = draws + 1
    /\ kem' = kem
    /\ dsa' = dsa

\* C8: a failed draw ends the call with the entropy error, nothing computed,
\* nothing changed.
C8_EntropyFailureIsFatal == [][C8_Step]_vars

\* a new that failed on entropy while an instance was held
C8_Witness ==
  /\ last.op = "VollyKEM::new"
  /\ ~last.e.ok
  /\ last.e.id > 0
  /\ ~last.ret.ok
  /\ kem.live

\* ---------------------------------------------------------------- C9
\* C9: from_keys succeeds exactly when both lengths are right, then returns
\* (and the caller holds) both byte strings verbatim; it attempts no decode;
\* on a wrong length it returns the length error, the public key's first,
\* and the held instance stays as it was.
C9_Step ==
  last'.op = "VollyKEM::from_keys" =>
    LET pk == last'.args.public_key
        sk == last'.args.secret_key
    IN /\ last'.ret.ok <=> (pk.len = EK_LEN /\ sk.len = DK_LEN)
       /\ last'.trace = <<>>
       /\ last'.ret.ok => (last'.ret.val = KeyPair(pk, sk) /\ kem' = Instance(KeyPair(pk, sk)))
       /\ ~last'.ret.ok =>
            /\ kem' = kem
            /\ last'.ret.err = IF pk.len # EK_LEN THEN <<"Invalid public key length", EK_LEN, pk.len>>
                               ELSE <<"Invalid secret key length", DK_LEN, sk.len>>

\* C9: from_keys checks the two lengths and nothing else.
C9_FromKeysChecksLengthsOnly == [][C9_Step]_vars

\* an accepted pair whose halves do not match and whose secret key does not decode
C9_Witness ==
  /\ last.op = "VollyKEM::from_keys"
  /\ last.ret.ok
  /\ EncapsKey_try_from_bytes(kem.public_key).ok
  /\ ~DecapsKey_try_from_bytes(kem.secret_key).ok

\* ---------------------------------------------------------------- C10
\* C10: decapsulate on an instance returns what decapsulate_with_key returns
\* for the instance's secret key and the same ciphertext, and sign on an
\* instance returns what sign_with_key returns for the instance's secret
\* key, the same message and the same outcome of the draw.
C10_InstanceEqualsStateless ==
  /\ last.op = "VollyKEM::decapsulate" =>
       last.ret = VollyKEM_decapsulate_with_key(kem.secret_key, last.args.ciphertext).ret
  /\ (last.op = "VollyKEM::decapsulate_with_key" /\ kem.live /\ last.args.secret_key = kem.secret_key) =>
       last.ret = VollyKEM_decapsulate(kem, last.args.ciphertext).ret
  /\ last.op = "VollyDSA::sign" =>
       last.ret = VollyDSA_sign_with_key(dsa.secret_key, last.args.message, last.e).ret
  /\ (last.op = "VollyDSA::sign_with_key" /\ dsa.live /\ last.args.secret_key = dsa.secret_key) =>
       last.ret = VollyDSA_sign(dsa, last.args.message, last.e).ret

\* decapsulate of an undecodable ciphertext on an instance whose secret key
\* does not decode either
C10_Witness ==
  /\ last.op = "VollyKEM::decapsulate"
  /\ last.args.ciphertext = Junk(CT_LEN)
  /\ ~DecapsKey_try_from_bytes(kem.secret_key).ok
  /\ last.ret = Err(<<"Invalid ciphertext">>)

\* ---------------------------------------------------------------- C11
MethodOps == {"VollyKEM::public_key", "VollyKEM::secret_key", "VollyKEM::encapsulate", "VollyKEM::decapsulate",
              "VollyDSA::public_key", "VollyDSA::secret_key", "VollyDSA::sign"}
GetterOps == {"VollyKEM::public_key", "VollyKEM::secret_key", "VollyDSA::public_key", "VollyDSA::secret_key"}

\* instances other than the one encapsulate is called on
OtherInstances == {NoInstance,
                   Instance(KeyPair(Bytes(EK_LEN, <<"ek", OtherKey>>), Bytes(DK_LEN, <<"dk", OtherKey>>))),
                   Instance(KeyPair(Junk(EK_LEN), Junk(DK_LEN)))}

C11_Step ==
  /\ last'.op \in MethodOps => (kem' = kem /\ dsa' = dsa)
  /\ last'.op = "VollyKEM::public_key" => last'.ret = Ok(kem.public_key)
  /\ last'.op = "VollyKEM::secret_key" => last'.ret = Ok(kem.secret_key)
  /\ last'.op = "VollyDSA::public_key" => last'.ret = Ok(dsa.public_key)
  /\ last'.op = "VollyDSA::secret_key" => last'.ret = Ok(dsa.secret_key)
  /\ (last'.op \in GetterOps /\ last.op = last'.op) => last'.ret = last.ret
  /\ last'.op = "VollyKEM::encapsulate" =>
       \A other \in OtherInstances :
         VollyKEM_encapsulate(other, last'.args.public_key, last'.e).ret = last'.ret

\* C11: a public_key, secret_key, encapsulate, decapsulate or sign call,
\* succeeding or failing, leaves the held instances' key bytes as they were,
\* so they stay those set by the constructor; a getter returns the held
\* bytes, the same bytes when called twice in a row; and encapsulate returns
\* what it would return on any other instance.
C11_HeldKeysNeverChange == [][C11_Step]_vars

\* a getter returning the key of an instance that outlived entropy draws
C11_Witness ==
  /\ last.op = "VollyKEM::public_key"
  /\ kem.live
  /\ last.ret = Ok(kem.public_key)
  /\ kem.public_key.len = EK_LEN
  /\ draws > 0

\* ---------------------------------------------------------------- C12
\* C12: every held VollyKEM has an EK_LEN-byte public key and a DK_LEN-byte
\* secret key, every held VollyDSA a PK_LEN-byte public key and an
\* SK_LEN-byte secret key; so decapsulate never returns the held-secret-key
\* length error, and sign never returns a secret-key length or encoding
\* error.
C12_HeldKeysHaveExactLengths ==
  /\ kem.live => (kem.public_key.len = EK_LEN /\ kem.secret_key.len = DK_LEN)
  /\ dsa.live => (dsa.public_key.len = PK_LEN /\ dsa.secret_key.len = SK_LEN)
  /\ (last.op = "VollyKEM::decapsulate" /\ ~last.ret.ok) => last.ret.err[1] # "Invalid secret key length"
  /\ (last.op = "VollyDSA::sign" /\ ~last.ret.ok) =>
       last.ret.err[1] \notin {"Invalid secret key length", "Invalid secret key"}

\* decapsulate on an instance built by from_keys failing with the secret
\* key's encoding error
C12_Witness ==
  /\ last.op = "VollyKEM::decapsulate"
  /\ kem.secret_key.len = DK_LEN
  /\ ~DecapsKey_try_from_bytes(kem.secret_key).ok
  /\ last.ret = Err(<<"Invalid secret key">>)

====
